---- MODULE Spec2Model ----
(***************************************************************************)
(* Model of psp/dataset/tokenizer.py: construction of a PointerTokenizer   *)
(* (Tokenizer.__init__, _read_topv2_ontology_vocabs,                       *)
(* _add_special_pointer_vocabs) and the calls made on a constructed        *)
(* tokenizer (transform, reverse_transform, output_vocab_size).            *)
(*                                                                         *)
(* Python lists and 1-d tensors are sequences; token ids are 0-based, so   *)
(* the token with id i is vocab[i + 1] and tensor[i] is tensor_seq[i + 1]. *)
(***************************************************************************)
EXTENDS Integers, Sequences, FiniteSets, TLC

\* ---------------------------------------------------------------- bounds
\* largest model_max_length of a pretrained tokenizer
MaxSeqLen == 2
\* largest number of label occurrences in an ontology file (Spec, SpecReload)
MaxEntries == 2
\* largest number of label occurrences in an ontology file (SpecCalls)
MaxCallEntries == 1
\* longest 1-d tensor handed to transform / reverse_transform
MaxInputLen == 1

\* ---------------------------------------------------------------- inputs
\* the dataset kinds a caller may request
DatasetPaths == {"TOPv2", "FOO"}

\* the domains of an ontology file and the two fields of a domain entry
DomainNames == <<"weather", "alarm">>
Fields == {"intents", "slots"}

\* the strings an ontology file may list: two ordinary labels, the span
\* delimiter itself, a string that is also the name of a pointer token and
\* one that is also a structural token of the pretrained vocabulary
Labels == {"IN:A", "SL:B", "]", "@ptr1", "<pad>"}

\* ---------------------------------------------------------------- helpers
Range(s) == {s[i] : i \in 1..Len(s)}

\* the orders in which the elements of the set S can be listed, each once
ListOfSet(S) == {s \in [1..Cardinality(S) -> S] : Range(s) = S}

\* Dedupe without the set(): the list as it stands
DedupeForgotten(l) == {l}

\* list(set(l)): the elements of l without repetition, in an unspecified order
Dedupe(l) == ListOfSet(Range(l))

\* ---------------------------------------------------------------- tokenizer
EOSPAN_TOKEN == "]"

\* BartTokenizer.from_pretrained: the pretrained vocabulary, token with id i
\* at position i + 1 (<s> 0, <pad> 1, </s> 2, <unk> 3, then ordinary tokens,
\* "]" among them: the byte-level vocabulary holds every single character)
BaseVocab == <<"<s>", "<pad>", "</s>", "<unk>", "]", "the">>

bos_token == "<s>"
pad_token == "<pad>"
eos_token == "</s>"
unk_token == "<unk>"

\* tokenizer.convert_tokens_to_ids for one token: its id, unk's id if unknown
TokenId(v, t) ==
    IF t \in Range(v)
    THEN (CHOOSE i \in 1..Len(v) : v[i] = t) - 1
    ELSE (CHOOSE i \in 1..Len(v) : v[i] = unk_token) - 1

\* tokenizer.add_tokens(toks, special_tokens=True): each token the vocabulary
\* does not know yet gets the next free id, in the order of toks
RECURSIVE add_tokens(_, _)
add_tokens(v, toks) ==
    IF toks = <<>> THEN v
    ELSE add_tokens(IF Head(toks) \in Range(v) THEN v ELSE Append(v, Head(toks)),
                    Tail(toks))

\* tokenizer.encode(list of tokens): <s>, the id of each token, </s>
encode(v, toks) ==
    <<TokenId(v, bos_token)>> \o [i \in 1..Len(toks) |-> TokenId(v, toks[i])]
        \o <<TokenId(v, eos_token)>>

\* Strip cutting at the wrong end, s[:-2]
StripTailOnly(s) == SubSeq(s, 1, Len(s) - 2)

\* python's s[1:-1]
Strip(s) == SubSeq(s, 2, Len(s) - 1)

\* "@ptr{}".format(x)
PointerNames == <<"@ptr0", "@ptr1", "@ptr2", "@ptr3", "@ptr4", "@ptr5">>
\* PointerName without the index: every pointer is "@ptr0"
PointerNameNoIndex(x) == PointerNames[1]

PointerName(x) == PointerNames[x + 1]

\* ---------------------------------------------------------------- state
VARIABLES
    pc,                     \* where the construction stands
    error,                  \* the exception that ended the construction
    dataset_path,           \* constructor argument
    model_max_length,       \* tokenizer.model_max_length of the pretrained model
    vocab,                  \* the tokenizer's vocabulary; len(tokenizer) = Len(vocab)
    attrs,                  \* the attributes assigned on self so far
    ontology_per_domain_map,
    intent_list,
    slot_list,
    ontology_id_list,
    eospan_token_id,
    intent_to_id_map,
    slot_to_id_map,
    pointer_to_id_map,
    id_to_pointer_map,
    pointers_to_vocabs,
    vocabs_to_pointers,
    call,                   \* the last call made on the constructed tokenizer
    prev                    \* what an earlier construction from the same inputs built

vars == <<pc, error, dataset_path, model_max_length, vocab, attrs,
          ontology_per_domain_map, intent_list, slot_list, ontology_id_list,
          eospan_token_id, intent_to_id_map, slot_to_id_map, pointer_to_id_map,
          id_to_pointer_map, pointers_to_vocabs, vocabs_to_pointers, call, prev>>

ontology_vars == <<ontology_per_domain_map, intent_list, slot_list, ontology_id_list,
                   eospan_token_id, intent_to_id_map, slot_to_id_map>>

pointer_vars == <<pointer_to_id_map, id_to_pointer_map, pointers_to_vocabs,
                  vocabs_to_pointers>>

EmptyMap == [t \in {} |-> 0]
NoCall == [op |-> "none", in |-> <<>>, out |-> <<>>, err |-> "none"]

\* the attributes of a tokenizer object before any is assigned
Blank ==
    /\ pc = "new"
    /\ error = "none"
    /\ vocab = BaseVocab
    /\ attrs = {}
    /\ ontology_per_domain_map = <<>>
    /\ intent_list = <<>>
    /\ slot_list = <<>>
    /\ ontology_id_list = <<>>
    /\ eospan_token_id = -1
    /\ intent_to_id_map = EmptyMap
    /\ slot_to_id_map = EmptyMap
    /\ pointer_to_id_map = EmptyMap
    /\ id_to_pointer_map = EmptyMap
    /\ pointers_to_vocabs = <<>>
    /\ vocabs_to_pointers = <<>>
    /\ call = NoCall

Init ==
    /\ Blank
    /\ dataset_path \in DatasetPaths
    /\ model_max_length \in 1..MaxSeqLen
    /\ prev = <<>>

\* ---------------------------------------------------------------- ontology files
\* An ontology file is a dict from domain name to a dict that should hold the
\* keys "intents" and "slots", each with a list of labels.  The reader only
\* walks its values, so a file is the sequence of its domain entries, in the
\* order of DomainNames; has_intents and has_slots say which keys an entry holds.

\* one label occurrence of a file: the domain and field it is listed in
EntryKinds == {<<d, f, l>> : d \in DOMAIN DomainNames, f \in Fields, l \in Labels}

EntrySeqs(n) == UNION {[1..k -> EntryKinds] : k \in 0..n}

\* the labels that es lists for field f of domain d, in order
RECURSIVE LabelsOf(_, _, _)
LabelsOf(es, d, f) ==
    IF es = <<>> THEN <<>>
    ELSE (IF Head(es)[1] = d /\ Head(es)[2] = f THEN <<Head(es)[3]>> ELSE <<>>)
             \o LabelsOf(Tail(es), d, f)

\* the files with at most n label occurrences
OntologyFiles(n) ==
    {[d \in DOMAIN DomainNames |->
        [has_intents |-> hi[d],
         has_slots |-> hs[d],
         intents |-> IF hi[d] THEN LabelsOf(es, d, "intents") ELSE <<>>,
         slots |-> IF hs[d] THEN LabelsOf(es, d, "slots") ELSE <<>>]] :
        es \in EntrySeqs(n),
        hi \in [DOMAIN DomainNames -> BOOLEAN],
        hs \in [DOMAIN DomainNames -> BOOLEAN]}

\* the files the constructions of Spec and SpecReload may find, and those of
\* SpecCalls
Files == OntologyFiles(MaxEntries)
CallFiles == OntologyFiles(MaxCallEntries)

\* ---------------------------------------------------------------- construction
\* Tokenizer.__init__: load the pretrained tokenizer, dispatch on the dataset
Tokenizer_init ==
    /\ pc = "new"
    /\ attrs' = attrs \cup {"tokenizer"}
    /\ IF dataset_path = "TOPv2"
       THEN pc' = "read" /\ error' = "none"
       ELSE pc' = "failed" /\ error' = "ValueError"
    /\ UNCHANGED <<dataset_path, model_max_length, vocab, ontology_vars, pointer_vars,
                   call, prev>>

\* the loop of _read_topv2_ontology_vocabs over the domain entries still to
\* visit: extend both lists, stop with KeyError at the first missing key
RECURSIVE CollectLabels(_, _, _)
CollectLabels(entries, intents, slots) ==
    IF entries = <<>> THEN [ok |-> TRUE, intents |-> intents, slots |-> slots]
    ELSE LET entry == Head(entries) IN
         IF ~entry.has_intents
         THEN [ok |-> FALSE, intents |-> intents, slots |-> slots]
         ELSE IF ~entry.has_slots
         THEN [ok |-> FALSE, intents |-> intents \o entry.intents, slots |-> slots]
         ELSE CollectLabels(Tail(entries), intents \o entry.intents,
                            slots \o entry.slots)

\* ReadOntology registering the labels of each domain as it visits it, so
\* that the tokens of the domains before a malformed one are already added
ReadOntologyRegistering(files) ==
    /\ pc = "read"
    /\ \/ /\ prev = <<>>
          /\ pc' = "failed"
          /\ error' = "FileNotFoundError"
          /\ UNCHANGED <<attrs, vocab, ontology_per_domain_map, intent_list, slot_list>>
       \/ \E file \in files :
            LET got == CollectLabels(file, <<>>, <<>>) IN
            /\ prev # <<>> => file = prev[1].file
            /\ ontology_per_domain_map' = file
            /\ intent_list' = got.intents
            /\ slot_list' = got.slots
            /\ vocab' = add_tokens(vocab, got.intents \o got.slots)
            /\ attrs' = attrs \cup {"ontology_per_domain_map", "intent_list", "slot_list"}
            /\ IF got.ok
               THEN pc' = "collected" /\ error' = "none"
               ELSE pc' = "failed" /\ error' = "KeyError"
    /\ UNCHANGED <<dataset_path, model_max_length, ontology_id_list,
                   eospan_token_id, intent_to_id_map, slot_to_id_map, pointer_vars,
                   call, prev>>

\* _read_topv2_ontology_vocabs, lines 30-40: open and unpickle the ontology
\* file, then gather the intents and slots of every domain
ReadOntology(files) ==
    /\ pc = "read"
    /\ \/ \* open() finds no file (a second construction finds the file the
          \* first one read)
          /\ prev = <<>>
          /\ pc' = "failed"
          /\ error' = "FileNotFoundError"
          /\ UNCHANGED <<attrs, ontology_per_domain_map, intent_list, slot_list>>
       \/ \E file \in files :
            LET got == CollectLabels(file, <<>>, <<>>) IN
            /\ prev # <<>> => file = prev[1].file
            /\ ontology_per_domain_map' = file
            /\ intent_list' = got.intents
            /\ slot_list' = got.slots
            /\ attrs' = attrs \cup {"ontology_per_domain_map", "intent_list", "slot_list"}
            /\ IF got.ok
               THEN pc' = "collected" /\ error' = "none"
               ELSE pc' = "failed" /\ error' = "KeyError"
    /\ UNCHANGED <<dataset_path, model_max_length, vocab, ontology_id_list,
                   eospan_token_id, intent_to_id_map, slot_to_id_map, pointer_vars,
                   call, prev>>

\* dict(zip(keys, values)): a later pair replaces an earlier one with its key
DictOfZip(keys, values) ==
    [k \in Range(keys) |->
       values[CHOOSE i \in 1..Len(keys) :
                  /\ keys[i] = k
                  /\ \A j \in (i + 1)..Len(keys) : keys[j] # k]]

\* _read_topv2_ontology_vocabs, lines 42-84: deduplicate, register the
\* ontology tokens and record their ids
RegisterOntology ==
    /\ pc = "collected"
    /\ \E il \in Dedupe(intent_list), sl \in Dedupe(slot_list) :
       \E ontology_list \in Dedupe(il \o sl \o <<EOSPAN_TOKEN>>) :
       \E v \in {add_tokens(vocab, ontology_list)} :
       \E ids \in {Strip(encode(v, ontology_list))} :
       \E ontology_to_id_map \in {DictOfZip(ontology_list, ids)} :
         /\ intent_list' = il
         /\ slot_list' = sl
         /\ vocab' = v
         /\ ontology_id_list' = ids
         /\ eospan_token_id' = ontology_to_id_map[EOSPAN_TOKEN]
         /\ intent_to_id_map' = [t \in Range(il) |-> ontology_to_id_map[t]]
         /\ slot_to_id_map' = [t \in Range(sl) |-> ontology_to_id_map[t]]
    /\ attrs' = attrs \cup {"ontology_id_list", "eospan_token_id", "intent_to_id_map",
                            "id_to_intent_map", "slot_to_id_map", "id_to_slot_map",
                            "intent_tensors", "slot_tensors"}
    /\ pc' = "registered"
    /\ UNCHANGED <<error, dataset_path, model_max_length, ontology_per_domain_map,
                   pointer_vars, call, prev>>

\* IndexPut writing arange(1, len + 1): every position is one too high
RECURSIVE IndexPutFromOne(_, _)
IndexPutFromOne(p2v, n) ==
    IF n = 0 THEN {<<>>}
    ELSE LET x == n - 1
             at == {j \in 1..Len(p2v) : p2v[j] = x}
         IN {Append(t, c) : t \in IndexPutFromOne(p2v, n - 1),
                            c \in (IF at = {} THEN {-1} ELSE at)}

\* the ways vocabs_to_pointers[pointers_to_vocabs] = arange(...) can fill the
\* first n entries of a table preset to -1: entry x gets a position of p2v
\* that holds x; torch leaves open which one when p2v holds x more than once
RECURSIVE IndexPut(_, _)
IndexPut(p2v, n) ==
    IF n = 0 THEN {<<>>}
    ELSE LET x == n - 1
             at == {j \in 0..(Len(p2v) - 1) : p2v[j + 1] = x}
         IN {Append(t, c) : t \in IndexPut(p2v, n - 1),
                            c \in (IF at = {} THEN {-1} ELSE at)}

\* PointersToVocabs with the structural tokens in the order of the comment
\* at line 247 (<BOS>, <PAD>, <UNK>, <EOS>)
PointersToVocabsSwapped(v, pointer_id_list, ontology_ids) ==
    pointer_id_list \o ontology_ids
        \o <<TokenId(v, bos_token), TokenId(v, pad_token),
             TokenId(v, unk_token), TokenId(v, eos_token)>>

\* line 226: the restricted output vocabulary, as ids of the vocabulary v
PointersToVocabs(v, pointer_id_list, ontology_ids) ==
    pointer_id_list \o ontology_ids
        \o <<TokenId(v, eos_token), TokenId(v, bos_token),
             TokenId(v, pad_token), TokenId(v, unk_token)>>

\* PointerTokenizer._add_special_pointer_vocabs: register the pointer tokens
\* and build the two lookup tables
AddSpecialPointerVocabs ==
    /\ pc = "registered"
    /\ \E pointer_set \in {[i \in 1..model_max_length |-> PointerName(i - 1)]} :
       \E v \in {add_tokens(vocab, pointer_set)} :
       \E pointer_id_list \in {Strip(encode(v, pointer_set))} :
       \E p2v \in {PointersToVocabs(v, pointer_id_list, ontology_id_list)} :
         /\ vocab' = v
         /\ pointer_to_id_map' = DictOfZip(pointer_set, pointer_id_list)
         /\ id_to_pointer_map' = DictOfZip(pointer_id_list, pointer_set)
         /\ pointers_to_vocabs' = p2v
         /\ vocabs_to_pointers' \in IndexPut(p2v, Len(v))
    /\ attrs' = attrs \cup {"pointer_to_id_map", "id_to_pointer_map",
                            "pointers_to_vocabs", "vocabs_to_pointers"}
    /\ pc' = "ready"
    /\ UNCHANGED <<error, dataset_path, model_max_length, ontology_vars, call, prev>>

\* ---------------------------------------------------------------- calls
\* the 1-d tensors of 1..MaxInputLen values drawn from S
Tensors(S) == UNION {[1..k -> S] : k \in 1..MaxInputLen}

\* tensor[i] for -Len(tensor) <= i < Len(tensor): a negative index counts
\* from the end
At(tensor, i) == tensor[(i % Len(tensor)) + 1]

\* PointerTokenizer.transform: self.vocabs_to_pointers[inputs]
transform(inputs) == [i \in 1..Len(inputs) |-> At(vocabs_to_pointers, inputs[i])]

\* reverse_transform looking up the forward table
reverse_transform_forward_table(inputs) ==
    [i \in 1..Len(inputs) |-> At(vocabs_to_pointers, inputs[i])]

\* PointerTokenizer.reverse_transform: self.pointers_to_vocabs[inputs]
reverse_transform(inputs) == [i \in 1..Len(inputs) |-> At(pointers_to_vocabs, inputs[i])]

\* Tokenizer.vocab_size: len(self.tokenizer)
vocab_size == Len(vocab)

\* Tokenizer.ontology_vocab_size: len(self.ontology_list), an attribute that
\* no line assigns (ontology_list at line 48 is a local of the reader)
ontology_vocab_size ==
    IF "ontology_list" \in attrs
    THEN [err |-> "none", val |-> Len(ontology_id_list)]
    ELSE [err |-> "AttributeError", val |-> 0]

\* PointerTokenizer.pointer_set_size
pointer_set_size == Cardinality(DOMAIN pointer_to_id_map)

\* PointerTokenizer.output_vocab_size
output_vocab_size ==
    IF ontology_vocab_size.err # "none"
    THEN ontology_vocab_size
    ELSE [err |-> "none", val |-> ontology_vocab_size.val + pointer_set_size + 4]

\* a call of transform on a tensor of ids of the extended vocabulary
Transform ==
    /\ pc = "ready"
    /\ call = NoCall
    /\ \E inputs \in Tensors(0..(vocab_size - 1)) :
         call' = [op |-> "transform", in |-> inputs, out |-> transform(inputs),
                  err |-> "none"]
    /\ UNCHANGED <<pc, error, dataset_path, model_max_length, vocab, attrs,
                   ontology_vars, pointer_vars, prev>>

\* a call of reverse_transform on a tensor of compact ids
ReverseTransform ==
    /\ pc = "ready"
    /\ call = NoCall
    /\ \E inputs \in Tensors(0..(Len(pointers_to_vocabs) - 1)) :
         call' = [op |-> "reverse_transform", in |-> inputs,
                  out |-> reverse_transform(inputs), err |-> "none"]
    /\ UNCHANGED <<pc, error, dataset_path, model_max_length, vocab, attrs,
                   ontology_vars, pointer_vars, prev>>

\* a read of the output_vocab_size property
OutputVocabSize ==
    /\ pc = "ready"
    /\ call = NoCall
    /\ call' = [op |-> "output_vocab_size", in |-> <<>>,
                out |-> IF output_vocab_size.err = "none"
                        THEN <<output_vocab_size.val>> ELSE <<>>,
                err |-> output_vocab_size.err]
    /\ UNCHANGED <<pc, error, dataset_path, model_max_length, vocab, attrs,
                   ontology_vars, pointer_vars, prev>>

\* the caller takes the result of the call; the tokenizer is idle again
Return ==
    /\ call # NoCall
    /\ call' = NoCall
    /\ UNCHANGED <<pc, error, dataset_path, model_max_length, vocab, attrs,
                   ontology_vars, pointer_vars, prev>>

\* PointerTokenizer.__init__ run once more, in a new process, with the same
\* arguments and the same ontology file: what the first run built is kept
\* aside for comparison
Reinitialize ==
    /\ pc = "ready"
    /\ prev = <<>>
    /\ prev' = <<[file |-> ontology_per_domain_map,
                  vocab |-> vocab,
                  pointers_to_vocabs |-> pointers_to_vocabs,
                  vocabs_to_pointers |-> vocabs_to_pointers]>>
    /\ pc' = "new"
    /\ error' = "none"
    /\ vocab' = BaseVocab
    /\ attrs' = {}
    /\ ontology_per_domain_map' = <<>>
    /\ intent_list' = <<>>
    /\ slot_list' = <<>>
    /\ ontology_id_list' = <<>>
    /\ eospan_token_id' = -1
    /\ intent_to_id_map' = EmptyMap
    /\ slot_to_id_map' = EmptyMap
    /\ pointer_to_id_map' = EmptyMap
    /\ id_to_pointer_map' = EmptyMap
    /\ pointers_to_vocabs' = <<>>
    /\ vocabs_to_pointers' = <<>>
    /\ call' = NoCall
    /\ UNCHANGED <<dataset_path, model_max_length>>

\* ---------------------------------------------------------------- specifications
\* construction from ontology files of up to MaxEntries label occurrences
Next ==
    \/ Tokenizer_init
    \/ ReadOntology(Files)
    \/ RegisterOntology
    \/ AddSpecialPointerVocabs

Spec == Init /\ [][Next]_vars

\* construction, then calls on the constructed tokenizer
NextCalls ==
    \/ Tokenizer_init
    \/ ReadOntology(CallFiles)
    \/ RegisterOntology
    \/ AddSpecialPointerVocabs
    \/ Transform
    \/ ReverseTransform
    \/ OutputVocabSize
    \/ Return

SpecCalls == Init /\ [][NextCalls]_vars

\* two constructions in a row from the same inputs
NextReload ==
    \/ Tokenizer_init
    \/ ReadOntology(Files)
    \/ RegisterOntology
    \/ AddSpecialPointerVocabs
    \/ Reinitialize

SpecReload == Init /\ [][NextReload]_vars

\* ---------------------------------------------------------------- properties
\* the ids of the four structural tokens
bos_token_id == TokenId(vocab, bos_token)
eos_token_id == TokenId(vocab, eos_token)
pad_token_id == TokenId(vocab, pad_token)
unk_token_id == TokenId(vocab, unk_token)
StructuralIds == {bos_token_id, eos_token_id, pad_token_id, unk_token_id}

\* the labels the ontology file lists, the pointer tokens of this tokenizer,
\* and the ontology tokens (the labels and the span delimiter)
FileLabels ==
    UNION {Range(ontology_per_domain_map[d].intents)
               \cup Range(ontology_per_domain_map[d].slots) :
           d \in DOMAIN ontology_per_domain_map}
PointerSet == {PointerName(n) : n \in 0..(model_max_length - 1)}
OntologyTokens == FileLabels \cup {EOSPAN_TOKEN}

\* no label of the ontology file is a pointer token or a structural token
NoReservedLabel ==
    FileLabels \cap (PointerSet \cup {bos_token, eos_token, pad_token, unk_token}) = {}

\* the restricted output vocabulary, as a set of ids
Members == Range(pointers_to_vocabs)
RestrictedSize == Len(pointers_to_vocabs)
NoRepeat(s) == Cardinality(Range(s)) = Len(s)
OntologyRegistered == pc \in {"registered", "ready"}

\* C1: transform followed by reverse_transform gives back every id tensor
\* whose elements all belong to the restricted output vocabulary.
C1_RoundTrip ==
    (call.op = "transform" /\ Range(call.in) \subseteq Members)
        => /\ \A i \in 1..Len(call.out) : call.out[i] \in 0..(RestrictedSize - 1)
           /\ reverse_transform(call.out) = call.in

\* transform has been called on the id of an ontology token the file added
C1_Witness ==
    /\ call.op = "transform"
    /\ Range(call.in) \subseteq Members
    /\ \E i \in 1..Len(call.in) :
         /\ call.in[i] \in Range(ontology_id_list)
         /\ call.in[i] >= Len(BaseVocab)

\* C2 as stated: for any ontology and any maxSeqLen the inverse map holds no
\* id twice, and reverse_transform followed by transform gives back every
\* compact id.
C2_Original ==
    /\ pc = "ready" => NoRepeat(pointers_to_vocabs)
    /\ call.op = "reverse_transform" => transform(call.out) = call.in

\* C2 amended: the same, for every ontology none of whose labels is a pointer
\* token or a structural token.
C2_Amended ==
    NoReservedLabel =>
        /\ pc = "ready" => NoRepeat(pointers_to_vocabs)
        /\ call.op = "reverse_transform" => transform(call.out) = call.in

\* reverse_transform has been called on the compact id of an ontology token
\* of an ontology with unreserved labels
C2_Witness ==
    /\ call.op = "reverse_transform"
    /\ NoReservedLabel
    /\ FileLabels # {}
    /\ \E i \in 1..Len(call.in) :
         /\ call.in[i] >= model_max_length
         /\ call.in[i] < model_max_length + Len(ontology_id_list)

\* C3: output_vocab_size returns maxSeqLen + ontologyVocabSize + 4, the
\* length of the inverse map.
C3_OutputVocabSize ==
    call.op = "output_vocab_size"
        => /\ call.err = "none"
           /\ call.out = <<model_max_length + Cardinality(OntologyTokens) + 4>>
           /\ call.out = <<RestrictedSize>>

\* the compact ids of pointer n, of the k-th ontology id and of the four
\* structural tokens, as transform gives them
ForwardLayout ==
    /\ \A n \in 0..(model_max_length - 1) :
         transform(<<pointer_to_id_map[PointerName(n)]>>) = <<n>>
    /\ \A k \in 1..Len(ontology_id_list) :
         transform(<<ontology_id_list[k]>>) = <<model_max_length + k - 1>>
    /\ transform(<<eos_token_id>>) = <<RestrictedSize - 4>>
    /\ transform(<<bos_token_id>>) = <<RestrictedSize - 3>>
    /\ transform(<<pad_token_id>>) = <<RestrictedSize - 2>>
    /\ transform(<<unk_token_id>>) = <<RestrictedSize - 1>>

\* the same layout read through reverse_transform
ReverseLayout ==
    /\ RestrictedSize = model_max_length + Len(ontology_id_list) + 4
    /\ \A n \in 0..(model_max_length - 1) :
         reverse_transform(<<n>>) = <<pointer_to_id_map[PointerName(n)]>>
    /\ \A k \in 1..Len(ontology_id_list) :
         reverse_transform(<<model_max_length + k - 1>>) = <<ontology_id_list[k]>>
    /\ reverse_transform(<<RestrictedSize - 4, RestrictedSize - 3>>)
           = <<eos_token_id, bos_token_id>>
    /\ reverse_transform(<<RestrictedSize - 2, RestrictedSize - 1>>)
           = <<pad_token_id, unk_token_id>>

\* what a call returned is what the tables of the build give
CallUsesLayout ==
    /\ call.op = "transform" => call.out = transform(call.in)
    /\ call.op = "reverse_transform" => call.out = reverse_transform(call.in)

\* C4 as stated: the compact ids are laid out as pointers, ontology tokens,
\* end, begin, pad, unknown, in both directions and in every later call.
C4_Original ==
    pc = "ready" => ForwardLayout /\ ReverseLayout /\ CallUsesLayout

\* C4 amended: reverse_transform reads that layout for any ontology;
\* transform gives it for every ontology none of whose labels is a pointer
\* token or a structural token.
C4_Amended ==
    pc = "ready" =>
        /\ ReverseLayout
        /\ CallUsesLayout
        /\ NoReservedLabel => ForwardLayout

\* transform has been called on a structural id of a tokenizer with at least
\* two pointers and an ontology with unreserved labels
C4_Witness ==
    /\ call.op = "transform"
    /\ call.in = <<eos_token_id>>
    /\ model_max_length >= 2
    /\ NoReservedLabel
    /\ FileLabels # {}

\* C5: a construction that fails has added no token to the vocabulary.
C5_Atomic ==
    pc = "failed" => vocab = BaseVocab /\ Len(vocab) = Len(BaseVocab)

\* the construction failed on a domain entry without slots, after it had
\* collected a label
C5_Witness ==
    /\ pc = "failed"
    /\ error = "KeyError"
    /\ intent_list # <<>>

\* C6: transform on a tensor holding an id outside the restricted output
\* vocabulary fails; it returns no sentinel.
C6_Rejects ==
    (call.op = "transform" /\ ~(Range(call.in) \subseteq Members))
        => /\ call.err # "none"
           /\ -1 \notin Range(call.out)

\* C7: a second construction from the same ontology file and the same
\* pretrained vocabulary gives every ontology token the id the first gave it.
C7_Deterministic ==
    (OntologyRegistered /\ prev # <<>>)
        => \A t \in OntologyTokens : TokenId(vocab, t) = TokenId(prev[1].vocab, t)

\* C8: every ontology token is registered once, however often the file lists
\* it: as many ontology ids as distinct tokens, the delimiter among them, and
\* distinct tokens have distinct ids.
C8_SetSemantics ==
    OntologyRegistered =>
        /\ Len(ontology_id_list) = Cardinality(OntologyTokens)
        /\ NoRepeat(ontology_id_list)
        /\ Range(ontology_id_list) = {TokenId(vocab, t) : t \in OntologyTokens}
        /\ \A t \in OntologyTokens :
             Cardinality({i \in 1..Len(vocab) : vocab[i] = t}) = 1
        /\ \A t, u \in OntologyTokens : t # u => TokenId(vocab, t) # TokenId(vocab, u)
        /\ Cardinality({k \in 1..Len(ontology_id_list) :
                            ontology_id_list[k] = eospan_token_id}) = 1

\* a new label is listed by both domains, as an intent and as a slot
C8_Witness ==
    /\ OntologyRegistered
    /\ \E t \in FileLabels :
         /\ t \notin Range(BaseVocab)
         /\ t \in Range(ontology_per_domain_map[1].intents)
         /\ t \in Range(ontology_per_domain_map[2].slots)

\* the pointer maps hold the maxSeqLen pointer tokens, are inverse to each
\* other, and the n-th recorded pointer id is the id of pointer n
PointerMaps ==
    /\ pointer_set_size = model_max_length
    /\ DOMAIN pointer_to_id_map = PointerSet
    /\ Cardinality(PointerSet) = model_max_length
    /\ Cardinality(DOMAIN id_to_pointer_map) = model_max_length
    /\ \A t \in PointerSet :
         /\ pointer_to_id_map[t] = TokenId(vocab, t)
         /\ pointer_to_id_map[t] \in DOMAIN id_to_pointer_map
         /\ id_to_pointer_map[pointer_to_id_map[t]] = t
    /\ \A n \in 0..(model_max_length - 1) :
         pointers_to_vocabs[n + 1] = pointer_to_id_map[PointerName(n)]

\* the ids of the pointer tokens grow with the pointer index
PointerIdsIncrease ==
    \A n1, n2 \in 0..(model_max_length - 1) :
        n1 < n2 => pointer_to_id_map[PointerName(n1)] < pointer_to_id_map[PointerName(n2)]

\* C9 as stated: maxSeqLen distinct pointer tokens, registered to strictly
\* increasing ids, the n-th recorded id being that of pointer n, the two
\* pointer maps inverse bijections.
C9_Original ==
    pc = "ready" => PointerMaps /\ PointerIdsIncrease

\* C9 amended: the same, the ids strictly increasing when no label of the
\* ontology is itself a pointer token.
C9_Amended ==
    pc = "ready" =>
        /\ PointerMaps
        /\ FileLabels \cap PointerSet = {} => PointerIdsIncrease

\* two pointers registered after an ontology that lists no pointer token
C9_Witness ==
    /\ pc = "ready"
    /\ model_max_length >= 2
    /\ FileLabels # {}
    /\ FileLabels \cap PointerSet = {}

\* C10 as stated: the delimiter's id differs from the four structural ids
\* and from the id of every intent and slot token, for any ontology.
C10_Original ==
    OntologyRegistered =>
        /\ eospan_token_id \notin StructuralIds
        /\ \A t \in DOMAIN intent_to_id_map : intent_to_id_map[t] # eospan_token_id
        /\ \A t \in DOMAIN slot_to_id_map : slot_to_id_map[t] # eospan_token_id

\* C10 amended: the same, for every intent and slot token other than the
\* delimiter string itself.
C10_Amended ==
    OntologyRegistered =>
        /\ eospan_token_id = TokenId(vocab, EOSPAN_TOKEN)
        /\ eospan_token_id \notin StructuralIds
        /\ \A t \in DOMAIN intent_to_id_map :
             t # EOSPAN_TOKEN => intent_to_id_map[t] # eospan_token_id
        /\ \A t \in DOMAIN slot_to_id_map :
             t # EOSPAN_TOKEN => slot_to_id_map[t] # eospan_token_id

\* an ontology with an intent and a slot has been registered
C10_Witness ==
    /\ OntologyRegistered
    /\ DOMAIN intent_to_id_map # {}
    /\ DOMAIN slot_to_id_map # {}
    /\ EOSPAN_TOKEN \notin FileLabels
====
